---------------------------- MODULE Spec2Model ----------------------------
(***************************************************************************)
(* tag_water_bathymetry.py: main splits the water polygons of a GPKG into  *)
(* row-range chunks, a multiprocessing Pool runs process_chunk on every    *)
(* chunk, main merges the returned OSM ids in completion order and writes  *)
(* them sorted and deduplicated.                                           *)
(*                                                                         *)
(* Coordinates are integers.  The raster is north-up with square pixels of *)
(* tid.res coordinate units, so a pixel quantity is a fraction n / tid.res *)
(* and is carried as its numerator n.  A polygon is its envelope b =       *)
(* <<minx, miny, maxx, maxy>>, its area, and cover: the raster pixels      *)
(* whose centre lies inside the (repaired) geometry, which is what         *)
(* geometry_mask marks.                                                    *)
(***************************************************************************)
EXTENDS Integers, Sequences, FiniteSets

VARIABLES features, args, mpc, chunk_args, task, outq, all_ids, collected,
          output, written

vars == <<features, args, mpc, chunk_args, task, outq, all_ids, collected,
          output, written>>

-----------------------------------------------------------------------------
(* Bounds of the model *)

RasterW == 2
RasterH == 2
MaxFeatures == 3
MaxWorkers == 2

-----------------------------------------------------------------------------
(* Small helpers standing for Python built-ins *)

Min(a, b) == IF a <= b THEN a ELSE b
Max(a, b) == IF a >= b THEN a ELSE b

\* int(x) of the fraction n / d (d > 0): truncation toward zero
int_frac(n, d) == IF n >= 0 THEN n \div d ELSE -((-n) \div d)

\* round(x) of the fraction n / d (d > 0): Python rounds halves to even
round_frac(n, d) ==
    LET m == IF n >= 0 THEN n ELSE -n
        q == m \div d
        r == m % d
        a == IF 2 * r < d THEN q
             ELSE IF 2 * r > d THEN q + 1
             ELSE IF q % 2 = 0 THEN q ELSE q + 1
    IN  IF n >= 0 THEN a ELSE -a

Range(s) == {s[i] : i \in 1..Len(s)}

\* sorted(S) of a finite set of integers
RECURSIVE sorted(_)
sorted(S) ==
    IF S = {} THEN <<>>
    ELSE LET m == CHOOSE x \in S : \A y \in S : x <= y
         IN  <<m>> \o sorted(S \ {m})

\* sorted(set(all_ids)), line 155
unique_ids_as_collected(ids) == ids
unique_ids(ids) == sorted(Range(ids))

-----------------------------------------------------------------------------
(* The raster source *)

tid == [width |-> RasterW, height |-> RasterH, res |-> 2,
        left |-> 0, bottom |-> 0,
        right |-> 2 * RasterW, top |-> 2 * RasterH]

Pixels == (0..(tid.width - 1)) \X (0..(tid.height - 1))

\* band 1: the TID value of pixel <<col, row>>; 0 is "no real bathymetry"
data(p) == IF (p[1] + p[2]) % 2 = 0 THEN 11 ELSE 0

\* twice the coordinates of the centre of pixel <<col, row>>
centre2(p) == <<2 * tid.left + tid.res * (2 * p[1] + 1),
                2 * tid.top - tid.res * (2 * p[2] + 1)>>


-----------------------------------------------------------------------------
(* process_chunk: the Overlay Classifier applied to one row of the chunk *)

\* line 41: geom is None or geom.is_empty or geom.area < min_area
rejected(p, a) == p.kind = "none" \/ p.kind = "empty" \/ p.area < a.min_area

\* lines 44-47: make_valid of an invalid geometry left it empty
repair_empty(p) == p.kind = "unrepairable"

\* line 56: the envelope is strictly beyond one edge of tid.bounds
outside(b) ==
    b[1] > tid.right \/ b[3] < tid.left \/ b[2] > tid.top \/ b[4] < tid.bottom

\* lines 60-61: clamp the envelope to tid.bounds
clamp(b) == <<Max(b[1], tid.left), Max(b[2], tid.bottom),
              Min(b[3], tid.right), Min(b[4], tid.top)>>

\* rasterio.windows.from_bounds for the north-up transform: the window's
\* col_off, row_off, width, height as numerators over tid.res
from_bounds(cb) == [col_off |-> cb[1] - tid.left, row_off |-> tid.top - cb[4],
                    width |-> cb[3] - cb[1], height |-> cb[4] - cb[2]]

\* lines 64-67
col_off_of(w) == Max(int_frac(w.col_off, tid.res), 0)
row_off_of(w) == Max(int_frac(w.row_off, tid.res), 0)
width_of(w) == Min(round_frac(w.width, tid.res), tid.width - col_off_of(w))
height_of(w) == Min(round_frac(w.height, tid.res), tid.height - row_off_of(w))

\* lines 63-67 and 72: <<col_off, row_off, width, height>>
overlay_window(b) ==
    LET w == from_bounds(clamp(b))
    IN  <<col_off_of(w), row_off_of(w), width_of(w), height_of(w)>>

\* line 69
window_empty_and(win) == win[3] <= 0 /\ win[4] <= 0
window_empty_lt(win) == win[3] < 0 \/ win[4] < 0
window_empty(win) == win[3] <= 0 \/ win[4] <= 0

\* the pixels of Window(col_off, row_off, width, height)
window_pixels(win) ==
    {q \in (win[1]..(win[1] + win[3] - 1)) \X (win[2]..(win[2] + win[4] - 1)) :
        TRUE}

\* lines 73-79: data[mask], the band values under the geometry mask, kept
\* as a function from the selected pixel to its value
selected(p, win) ==
    [q \in {x \in window_pixels(win) : x \in p.cover} |-> data(q)]

\* line 85: pixels[pixels != 0]
real_data(pixels) == {q \in DOMAIN pixels : pixels[q] # 0}

\* lines 86-88: ratio >= threshold, with threshold = thr[1] / thr[2]
qualifies_gt(pixels, thr) ==
    Cardinality(real_data(pixels)) * thr[2] > thr[1] * Cardinality(DOMAIN pixels)
qualifies(pixels, thr) ==
    Cardinality(real_data(pixels)) * thr[2] >= thr[1] * Cardinality(DOMAIN pixels)

\* int(osm_id): the converted value, or the exception raised
int_of(id) ==
    CASE id.t = "int" -> [ok |-> TRUE, v |-> id.v, exc |-> "-"]
      [] id.t = "digits" -> [ok |-> TRUE, v |-> id.v, exc |-> "-"]
      [] id.t = "float" -> [ok |-> TRUE, v |-> int_frac(id.v, 2), exc |-> "-"]
      [] id.t = "nan" -> [ok |-> FALSE, v |-> 0, exc |-> "ValueError"]
      [] id.t = "text" -> [ok |-> FALSE, v |-> 0, exc |-> "ValueError"]
      [] id.t = "na" -> [ok |-> FALSE, v |-> 0, exc |-> "TypeError"]
      [] id.t = "inf" -> [ok |-> FALSE, v |-> 0, exc |-> "OverflowError"]
      [] OTHER -> [ok |-> FALSE, v |-> 0, exc |-> "TypeError"]

\* lines 90-95: what the qualifying row does to ids_with_bathy
extract_id_nocatch(id) ==
    IF id.t \in {"missing", "none"} THEN [act |-> "noid", v |-> 0]
    ELSE LET c == int_of(id)
         IN  IF c.ok THEN [act |-> "append", v |-> c.v]
             ELSE [act |-> "raise", v |-> 0]
extract_id(id) ==
    IF id.t \in {"missing", "none"} THEN [act |-> "noid", v |-> 0]
    ELSE LET c == int_of(id)
         IN  IF c.ok THEN [act |-> "append", v |-> c.v]
             ELSE IF c.exc \in {"ValueError", "TypeError"}
                  THEN [act |-> "badid", v |-> 0]
                  ELSE [act |-> "raise", v |-> 0]

NoWin == <<0, 0, 0, 0>>
NoPixels == [q \in {} |-> 0]

\* the exits of the loop body that are an exception: tid.read failing on
\* the window (line 78), int(osm_id) raising what line 94 does not catch
raises(exit) == exit \in {"ioerror", "raise"}

\* lines 39-95, one pass of the loop body over row p: which exit it takes
\* (exit), the window it derived (win, when derived), whether tid.read was
\* called (read), the pixels selected, and the id appended (v, on "append")
loop_body(p, a) ==
    IF rejected(p, a) THEN
        [exit |-> "geom", derived |-> FALSE, win |-> NoWin, read |-> FALSE,
         pixels |-> NoPixels, v |-> 0]
    ELSE IF repair_empty(p) THEN
        [exit |-> "repair", derived |-> FALSE, win |-> NoWin, read |-> FALSE,
         pixels |-> NoPixels, v |-> 0]
    ELSE IF outside(p.b) THEN
        [exit |-> "outside", derived |-> FALSE, win |-> NoWin, read |-> FALSE,
         pixels |-> NoPixels, v |-> 0]
    ELSE LET win == overlay_window(p.b) IN
    IF window_empty(win) THEN
        [exit |-> "window", derived |-> TRUE, win |-> win, read |-> FALSE,
         pixels |-> NoPixels, v |-> 0]
    ELSE IF p.fault THEN
        [exit |-> "ioerror", derived |-> TRUE, win |-> win, read |-> TRUE,
         pixels |-> NoPixels, v |-> 0]
    ELSE LET pixels == selected(p, win) IN
    IF Cardinality(DOMAIN pixels) = 0 THEN
        [exit |-> "nopixels", derived |-> TRUE, win |-> win, read |-> TRUE,
         pixels |-> pixels, v |-> 0]
    ELSE IF ~qualifies(pixels, a.threshold) THEN
        [exit |-> "ratio", derived |-> TRUE, win |-> win, read |-> TRUE,
         pixels |-> pixels, v |-> 0]
    ELSE LET e == extract_id(p.osm_id) IN
        [exit |-> e.act, derived |-> TRUE, win |-> win, read |-> TRUE,
         pixels |-> pixels, v |-> e.v]

-----------------------------------------------------------------------------
(* process_chunk: reading the chunk *)

\* line 30: gpd.read_file(rows=slice(start_idx, start_idx + chunk_size)),
\* the 0-based row numbers read from a file of n rows
read_rows_stop(n, start_idx, size) ==
    [i \in 1..Max(Min(size, n) - start_idx, 0) |-> start_idx + i - 1]
read_rows(n, start_idx, size) ==
    [i \in 1..Max(Min(start_idx + size, n) - start_idx, 0) |-> start_idx + i - 1]

\* the geometry of p meets box(minx, miny, maxx, maxy)
intersects(p, box) ==
    /\ p.kind \notin {"none", "empty"}
    /\ p.b[1] <= box[3] /\ p.b[3] >= box[1]
    /\ p.b[2] <= box[4] /\ p.b[4] >= box[2]

\* lines 33-35: gdf.cx[minx:maxx, miny:maxy] when a bbox is given
cx(fs, rows, bbox) ==
    IF bbox = <<>> THEN rows
    ELSE SelectSeq(rows, LAMBDA i : intersects(fs[i + 1], bbox))

-----------------------------------------------------------------------------
(* main: the chunk ranges *)

\* line 134
actual_chunk_size_nomin(n, c, start_idx) == c
actual_chunk_size(n, c, start_idx) == Min(c, n - start_idx)

\* lines 132-143: one (start_idx, actual_chunk_size) per
\* start_idx in range(0, total_features, chunk_size)
chunk_ranges(n, c) ==
    [k \in 1..((n + c - 1) \div c) |->
        [start_idx |-> (k - 1) * c,
         chunk_size |-> actual_chunk_size(n, c, (k - 1) * c)]]

-----------------------------------------------------------------------------
(* The run as a function of its inputs *)

\* lines 38-99: ids_with_bathy after the rows gdf[from..], or the error
RECURSIVE chunk_loop(_, _, _, _, _)
chunk_loop(fs, a, gdf, from, ids) ==
    IF from > Len(gdf) THEN [ok |-> TRUE, ids |-> ids]
    ELSE LET r == loop_body(fs[gdf[from] + 1], a)
         IN  IF raises(r.exit) THEN [ok |-> FALSE, ids |-> <<>>]
             ELSE chunk_loop(fs, a, gdf, from + 1,
                             IF r.exit = "append" THEN Append(ids, r.v) ELSE ids)

\* lines 20-99: what process_chunk returns for one chunk range
chunk_result(fs, a, range) ==
    chunk_loop(fs, a,
               cx(fs, read_rows(Len(fs), range.start_idx, range.chunk_size), a.bbox),
               1, <<>>)

\* lines 131-158: the file main writes when the chunk size is c, if it
\* writes one
run_result(fs, a, c) ==
    LET ranges == chunk_ranges(Len(fs), c)
        res == [k \in DOMAIN ranges |-> chunk_result(fs, a, ranges[k])]
    IN  IF \E k \in DOMAIN res : ~res[k].ok
        THEN [written |-> FALSE, output |-> <<>>]
        ELSE [written |-> TRUE,
              output |-> sorted(UNION {Range(res[k].ids) : k \in DOMAIN res})]

-----------------------------------------------------------------------------
(* Inputs *)

Ident(t, v) == [t |-> t, v |-> v]

Polygon(kind, area, b, cover, id, fault) ==
    [kind |-> kind, area |-> area, b |-> b, cover |-> cover, osm_id |-> id,
     fault |-> fault]

\* the pixels whose centre lies in the closed box b
centres_in(b) ==
    {q \in Pixels : /\ 2 * b[1] <= centre2(q)[1] /\ centre2(q)[1] <= 2 * b[3]
                    /\ 2 * b[2] <= centre2(q)[2] /\ centre2(q)[2] <= 2 * b[4]}

\* envelopes around and across the raster extent, one unit beyond each edge
Xs == (tid.left - 1)..(tid.right + 1)
Ys == (tid.bottom - 1)..(tid.top + 1)
Boxes == {b \in Xs \X Ys \X Xs \X Ys : b[1] < b[3] /\ b[2] < b[4]}

Kinds == {"none", "empty", "valid", "invalid", "unrepairable"}

Thresholds == {<<0, 1>>, <<1, 2>>, <<1, 1>>}

Idents == {Ident("missing", 0), Ident("none", 0), Ident("nan", 0),
           Ident("text", 0), Ident("na", 0), Ident("inf", 0),
           Ident("int", 7), Ident("digits", 4), Ident("float", 5)}

TopLeft4 == <<tid.left, tid.top - 4, tid.left + 4, tid.top>>
TopLeft1 == <<tid.left, tid.top - 2, tid.left + 2, tid.top>>

\* the masks of the geometries with envelope b: those that hold at most two
\* of the pixel centres of b, or all but at most two
Covers(b) ==
    LET all == centres_in(b)
        few == {{}} \cup {{x, y} : x \in all, y \in all}
    IN  few \cup {all \ d : d \in few}

\* the polygons of the coordinator runs
Catalogue ==
    {Polygon("valid", 1, TopLeft4, centres_in(TopLeft4), Ident("int", 5), FALSE),
     Polygon("valid", 1, TopLeft1, centres_in(TopLeft1), Ident("digits", 3), FALSE),
     Polygon("invalid", 1, TopLeft4, centres_in(TopLeft4), Ident("nan", 0), FALSE),
     Polygon("valid", 1, TopLeft4, centres_in(TopLeft4), Ident("inf", 0), FALSE)}

FilterBox == <<tid.left + 3, tid.top - 1, tid.left + 4, tid.top>>

SeqsUpTo(S, n) == UNION {[1..m -> S] : m \in 0..n}

-----------------------------------------------------------------------------
(* State *)

NoLast == [row |-> -1, exit |-> "-", derived |-> FALSE, win |-> NoWin,
           read |-> FALSE, pixels |-> NoPixels, v |-> 0]

\* one process_chunk invocation: where it is (pc), its raster handle (tid
\* is "unopened", "open" or "closed"; opened counts rasterio.open calls), the
\* rows it read, gdf after the bbox filter, the rows iterated so far (pos),
\* ids_with_bathy, and the outcome of its latest loop pass (last)
NewTask == [pc |-> "pending", tid |-> "unopened", opened |-> 0,
            rows_read |-> <<>>, gdf |-> <<>>, pos |-> 0, ids |-> <<>>,
            last |-> NoLast]

InitRun ==
    /\ mpc = "start"
    /\ chunk_args = <<>>
    /\ task = <<>>
    /\ outq = <<>>
    /\ all_ids = <<>>
    /\ collected = 0
    /\ output = <<>>
    /\ written = FALSE

Init ==
    /\ features \in SeqsUpTo(Catalogue, MaxFeatures)
    /\ args \in [threshold : {<<1, 2>>}, min_area : {1},
                 bbox : {<<>>, FilterBox},
                 chunk_size : 1..MaxFeatures, workers : 1..MaxWorkers]
    /\ InitRun

\* a classifier run, one chunk: a polygon of every envelope with each of
\* its masks; a polygon of every kind of geometry, identifier and read
\* failure on one envelope; rows of qualifying polygons with every
\* identifier
InitClassify ==
    /\ \/ \E b \in Boxes : \E c \in Covers(b) :
             features = <<Polygon("valid", 1, b, c, Ident("int", 7), FALSE)>>
       \/ \E k \in Kinds : \E ar \in 0..1 : \E id \in Idents : \E f \in BOOLEAN :
             features = <<Polygon(k, ar, TopLeft4, centres_in(TopLeft4), id, f)>>
       \/ \E ids \in SeqsUpTo(Idents, MaxFeatures) :
             features = [i \in DOMAIN ids |->
                 Polygon("valid", 1, TopLeft4, centres_in(TopLeft4), ids[i], FALSE)]
    /\ args \in [threshold : Thresholds, min_area : {1}, bbox : {<<>>},
                 chunk_size : {MaxFeatures}, workers : {1}]
    /\ InitRun

-----------------------------------------------------------------------------
(* main *)

\* lines 131-149: build chunk_args and hand them to the pool
MainPartition ==
    /\ mpc = "start"
    /\ chunk_args' = chunk_ranges(Len(features), args.chunk_size)
    /\ task' = [k \in DOMAIN chunk_args' |-> NewTask]
    /\ mpc' = "collect"
    /\ UNCHANGED <<features, args, outq, all_ids, collected, output, written>>

\* lines 150-152: the next result of imap_unordered, in completion order; a
\* chunk that raised re-raises in main, which leaves the with block (the
\* pool is terminated) and main
MainCollect ==
    /\ mpc = "collect"
    /\ outq # <<>>
    /\ outq' = Tail(outq)
    /\ \/ /\ Head(outq).ok
          /\ all_ids' = all_ids \o Head(outq).ids
          /\ collected' = collected + 1
          /\ mpc' = mpc
       \/ /\ ~Head(outq).ok
          /\ mpc' = "crashed"
          /\ UNCHANGED <<all_ids, collected>>
    /\ UNCHANGED <<features, args, chunk_args, task, output, written>>

\* lines 154-158: every chunk is in; write the output file
MainWrite ==
    /\ mpc = "collect"
    /\ collected = Len(chunk_args)
    /\ output' = unique_ids(all_ids)
    /\ written' = TRUE
    /\ mpc' = "done"
    /\ UNCHANGED <<features, args, chunk_args, task, outq, all_ids, collected>>

-----------------------------------------------------------------------------
(* process_chunk in a pool worker *)

Running == {k \in DOMAIN task : task[k].pc = "loop"}

\* lines 22-37: a free worker takes the next chunk, opens the raster, reads
\* the chunk's rows and applies the bbox filter
WorkerStart(k) ==
    /\ mpc = "collect"
    /\ task[k].pc = "pending"
    /\ \A j \in 1..(k - 1) : task[j].pc # "pending"
    /\ Cardinality(Running) < args.workers
    /\ LET rows == read_rows(Len(features), chunk_args[k].start_idx,
                             chunk_args[k].chunk_size)
       IN  task' = [task EXCEPT ![k].pc = "loop", ![k].tid = "open",
                                ![k].opened = @ + 1, ![k].rows_read = rows,
                                ![k].gdf = cx(features, rows, args.bbox)]
    /\ UNCHANGED <<features, args, mpc, chunk_args, outq, all_ids, collected,
                   output, written>>

\* lines 38-95: one pass of the loop; an exception leaves process_chunk at
\* once and becomes the chunk's result
WorkerLoop(k) ==
    /\ mpc = "collect"
    /\ task[k].pc = "loop"
    /\ task[k].pos < Len(task[k].gdf)
    /\ LET row == task[k].gdf[task[k].pos + 1]
           r == loop_body(features[row + 1], args)
           last == [row |-> row, exit |-> r.exit, derived |-> r.derived,
                    win |-> r.win, read |-> r.read, pixels |-> r.pixels,
                    v |-> r.v]
       IN  \/ /\ raises(r.exit)
              /\ task' = [task EXCEPT ![k].pc = "raised", ![k].last = last]
              /\ outq' = Append(outq, [chunk |-> k, ok |-> FALSE, ids |-> <<>>])
           \/ /\ r.exit = "append"
              /\ task' = [task EXCEPT ![k].pos = @ + 1, ![k].last = last,
                                      ![k].ids = Append(@, r.v)]
              /\ outq' = outq
           \/ /\ ~raises(r.exit) /\ r.exit # "append"
              /\ task' = [task EXCEPT ![k].pos = @ + 1, ![k].last = last]
              /\ outq' = outq
    /\ UNCHANGED <<features, args, mpc, chunk_args, all_ids, collected,
                   output, written>>

\* lines 97-99: the loop is over; close the raster and return the ids
WorkerFinish(k) ==
    /\ mpc = "collect"
    /\ task[k].pc = "loop"
    /\ task[k].pos = Len(task[k].gdf)
    /\ task' = [task EXCEPT ![k].pc = "done", ![k].tid = "closed"]
    /\ outq' = Append(outq, [chunk |-> k, ok |-> TRUE, ids |-> task[k].ids])
    /\ UNCHANGED <<features, args, mpc, chunk_args, all_ids, collected,
                   output, written>>

Next ==
    \/ MainPartition
    \/ MainCollect
    \/ MainWrite
    \/ \E k \in DOMAIN task : WorkerStart(k)
    \/ \E k \in DOMAIN task : WorkerLoop(k)
    \/ \E k \in DOMAIN task : WorkerFinish(k)

Spec == Init /\ [][Next]_vars

SpecClassify == InitClassify /\ [][Next]_vars

-----------------------------------------------------------------------------
(* Properties *)

StrictlyAscending(s) == \A i \in 1..(Len(s) - 1) : s[i] < s[i + 1]

Ended(k) == task[k].pc \in {"done", "raised"}

MainEnded == mpc \in {"done", "crashed"}

\* the chunks' result lists, concatenated in submission order
RECURSIVE InOrder(_)
InOrder(k) == IF k = 0 THEN <<>> ELSE InOrder(k - 1) \o task[k].ids

\* C1: the sequence main writes is the union of the chunks' result lists,
\* strictly ascending (so without duplicates), and is the one sequence the
\* inputs determine, whatever the order in which the chunks completed.
C1_OutputIsSortedUnion ==
    mpc = "done" =>
        /\ Range(output) = UNION {Range(task[k].ids) : k \in DOMAIN task}
        /\ StrictlyAscending(output)
        /\ output = run_result(features, args, args.chunk_size).output

\* C1 witness: a finished run whose chunks completed out of submission
\* order, with a duplicate identifier removed from the output.
C1_Witness ==
    /\ mpc = "done"
    /\ all_ids # InOrder(Len(task))
    /\ Len(all_ids) > Len(output)
    /\ Len(output) >= 2

\* C2: the chunk ranges partition [0, N): every row lies in exactly one
\* range, no range is empty or reaches past N, and a worker has read exactly
\* the rows of its range.
C2_ChunksPartitionRows ==
    mpc # "start" =>
        LET n == Len(features)
            In(i, k) == /\ chunk_args[k].start_idx <= i
                        /\ i < chunk_args[k].start_idx + chunk_args[k].chunk_size
        IN  /\ \A i \in 0..(n - 1) :
                   Cardinality({k \in DOMAIN chunk_args : In(i, k)}) = 1
            /\ \A k \in DOMAIN chunk_args :
                   /\ chunk_args[k].start_idx >= 0
                   /\ chunk_args[k].chunk_size >= 1
                   /\ chunk_args[k].start_idx + chunk_args[k].chunk_size <= n
            /\ \A k \in DOMAIN task :
                   task[k].pc # "pending" =>
                       /\ Range(task[k].rows_read) = {i \in 0..(n - 1) : In(i, k)}
                       /\ Len(task[k].rows_read) = chunk_args[k].chunk_size

\* C2 witness: a worker has read the last, shorter chunk of a run of
\* several chunks.
C2_Witness ==
    /\ Len(chunk_args) >= 2
    /\ \E k \in DOMAIN task :
          /\ task[k].pc # "pending"
          /\ chunk_args[k].chunk_size < args.chunk_size
          /\ task[k].rows_read # <<>>

\* C3: when a chunk raises, main still ends by writing the output file, and
\* the file holds the identifiers of every chunk that did not raise.
C3_FailedChunkIsolated ==
    MainEnded =>
        /\ written
        /\ LET ranges == chunk_ranges(Len(features), args.chunk_size)
               res == [k \in DOMAIN ranges |-> chunk_result(features, args, ranges[k])]
           IN  output = sorted(UNION {Range(res[k].ids) :
                                        k \in {j \in DOMAIN res : res[j].ok}})

\* C4: a process_chunk invocation that has ended, by return or by an
\* exception, opened exactly one raster handle and has closed it.
C4_HandleClosedOnEveryExit ==
    \A k \in DOMAIN task :
        Ended(k) => task[k].opened = 1 /\ task[k].tid = "closed"

\* the rows invocation k has classified, the raising one included
Classified(k) == task[k].pos + (IF task[k].pc = "raised" THEN 1 ELSE 0)

\* the list invocation k returned; an invocation that raised returned none
Returned(k) == IF task[k].pc = "done" THEN task[k].ids ELSE <<>>

\* C5: a process_chunk invocation that has ended, also one in which
\* classifying some row raised, has classified every row of its chunk, and
\* the list it returned holds the identifier of every row that qualified.
C5_RowErrorDoesNotStopLoop ==
    \A k \in DOMAIN task :
        Ended(k) =>
            /\ Classified(k) = Len(task[k].gdf)
            /\ \A i \in 1..Len(task[k].gdf) :
                   LET r == loop_body(features[task[k].gdf[i] + 1], args)
                   IN  r.exit = "append" => r.v \in Range(Returned(k))

\* the row of the latest loop pass of invocation k
LastRow(k) == features[task[k].last.row + 1]

Total(l) == Cardinality(DOMAIN l.pixels)
NonZero(l) == Cardinality({q \in DOMAIN l.pixels : l.pixels[q] # 0})

\* the loop pass reached the identifier extraction of lines 89-95
Qualified(l) == l.exit \in {"append", "noid", "badid", "raise"}

\* C6: a polygon with total >= 1 selected pixels, nonzero of them non-zero,
\* qualifies iff nonzero / total >= threshold; with threshold 0 a polygon
\* with a non-zero selected pixel qualifies, with threshold 1 only a polygon
\* whose selected pixels are all non-zero does; an empty selection never
\* qualifies.
C6_QualifiesIffRatioAtLeastThreshold ==
    \A k \in DOMAIN task :
        LET l == task[k].last
            thr == args.threshold
        IN  l.row >= 0 =>
                /\ Total(l) >= 1 =>
                       (Qualified(l) <=> NonZero(l) * thr[2] >= thr[1] * Total(l))
                /\ (thr[1] = 0 /\ NonZero(l) >= 1) => Qualified(l)
                /\ (thr[1] = thr[2] /\ Qualified(l)) => NonZero(l) = Total(l)
                /\ Total(l) = 0 => ~Qualified(l)

\* C6 witness: a polygon with some but not all selected pixels non-zero
\* qualified with its ratio equal to the threshold.
C6_Witness ==
    \E k \in DOMAIN task :
        LET l == task[k].last
        IN  /\ l.row >= 0
            /\ Qualified(l)
            /\ 0 < NonZero(l) /\ NonZero(l) < Total(l)
            /\ NonZero(l) * args.threshold[2] = args.threshold[1] * Total(l)

\* C7: a run that wrote its output wrote what a run of the same inputs
\* with any other chunk size writes, and a run that wrote nothing writes
\* nothing with any other chunk size.
C7_ChunkSizeDoesNotChangeOutput ==
    \A c \in 1..(MaxFeatures + 1) :
        /\ mpc = "done" =>
               run_result(features, args, c) = [written |-> TRUE, output |-> output]
        /\ mpc = "crashed" =>
               ~run_result(features, args, c).written /\ ~written

\* C7 witness: a run of three chunks, with no bbox filter, wrote two
\* identifiers.
C7_Witness ==
    /\ mpc = "done"
    /\ Len(chunk_args) = 3
    /\ Len(output) = 2
    /\ args.bbox = <<>>

\* the envelope does not reach inside the raster extent: strictly beyond an
\* edge, or only touching it
EntirelyOutside(b) ==
    b[1] >= tid.right \/ b[3] <= tid.left \/ b[2] >= tid.top \/ b[4] <= tid.bottom

StrictlyBeyond(b) ==
    b[1] > tid.right \/ b[3] < tid.left \/ b[2] > tid.top \/ b[4] < tid.bottom

Unconvertible(id) == id.t \in {"missing", "none", "nan", "text", "na"}

\* the integer a convertible identifier stands for
IntValue(id) == IF id.t = "float" THEN int_frac(id.v, 2) ELSE id.v

\* the rows among gdf[1..n] that qualify and carry a convertible identifier
RECURSIVE ConvertedIds(_, _)
ConvertedIds(gdf, n) ==
    IF n = 0 THEN <<>>
    ELSE LET p == features[gdf[n] + 1]
         IN  ConvertedIds(gdf, n - 1) \o
             (IF Qualified(loop_body(p, args)) /\ p.osm_id.t \in {"int", "digits", "float"}
              THEN <<IntValue(p.osm_id)>> ELSE <<>>)

C10_ReadWindowInsideGrid ==
    \A k \in DOMAIN task :
        LET l == task[k].last
        IN  l.row >= 0 =>
                /\ l.read =>
                       /\ l.derived
                       /\ l.win[1] >= 0 /\ l.win[2] >= 0
                       /\ l.win[3] >= 1 /\ l.win[4] >= 1
                       /\ l.win[1] + l.win[3] <= tid.width
                       /\ l.win[2] + l.win[4] <= tid.height
                /\ (l.derived /\ (l.win[3] <= 0 \/ l.win[4] <= 0)) =>
                       ~l.read /\ l.exit = "window"

\* C10 witness: pixels were read for a polygon whose envelope reaches beyond
\* the right and bottom edges of the extent, through a window that ends on
\* the last column and row.
C10_Witness ==
    \E k \in DOMAIN task :
        LET l == task[k].last
        IN  /\ l.row >= 0
            /\ l.read
            /\ LastRow(k).b[3] > tid.right /\ LastRow(k).b[2] < tid.bottom
            /\ l.win[1] > 0
            /\ l.win[1] + l.win[3] = tid.width
            /\ l.win[2] + l.win[4] = tid.height

=============================================================================
